---- MODULE Spec2Model ----
(***************************************************************************)
(* Model of robot_controller.py: the autonomous navigation loop (main),    *)
(* the capture channel (capture_image_from_server) and the obstacle        *)
(* classifier (analyze_image), together with the simulator that answers    *)
(* capture triggers over the WebSocket.                                     *)
(*                                                                         *)
(* Time is counted in whole units (seconds).  `timer` is the time spent in *)
(* the current suspension (one asyncio.wait_for, or one asyncio.sleep).    *)
(***************************************************************************)
EXTENDS Integers, Sequences, FiniteSets, TLC

VARIABLES
    pc,             \* position of main's coroutine
    conn,           \* the WebSocket: "none", "open", "dropped", "closed"
    wsq,            \* messages delivered to the WebSocket, not yet taken by ws.recv()
    pending,        \* capture triggers the simulator has received and not yet answered
    timer,          \* time units spent in the current wait_for / sleep
    totalWait,      \* time units since capture_image_from_server began to wait
    cycle,          \* number of capture_image_from_server invocations so far
    image_response, \* main's image_response (None after a timeout)
    image_data,     \* main's image_data
    robot_pos,      \* main's robot_pos
    is_obstacle_ahead, \* main's is_obstacle_ahead
    trace,          \* commands and pauses of the current loop iteration, in order
    issued,         \* number of dispatches of each command over the whole run
    timeouts,       \* number of consecutive capture timeouts
    fault,          \* the exception that propagated out of main, "none" if none
    goal            \* the module-level dict GOAL_POSITION as the program reads it

vars == <<pc, conn, wsq, pending, timer, totalWait, cycle, image_response,
          image_data, robot_pos, is_obstacle_ahead, trace, issued, timeouts,
          fault, goal>>

-----------------------------------------------------------------------------
(* Bounds of the model *)

MaxCycles == 2
MaxQueue == 1
MaxWait == 7

-----------------------------------------------------------------------------
(* Configuration *)

GOAL_POSITION == [x |-> -35, z |-> -35]
GOAL_THRESHOLD == 5
CAPTURE_TIMEOUT == 5
RETRY_DELAY == 1
OBSTACLE_SETTLE == 2
CLEAR_SETTLE == 1
CYCLE_DELAY == 1

\* GOAL_POSITION above is the value line 14 gives the dict; `goal` is the
\* dict itself, which lines 78, 94 and 115 read.

\* An optional value: None / an absent key is <<>>, a value v is <<v>>
None == <<>>
Missing == <<>>
Some(v) == <<v>>
Val(o) == o[1]

-----------------------------------------------------------------------------
(* Inputs: positions and image payloads the simulator may report *)

Positions ==
    { [x |-> -32, z |-> -32],      \* distance sqrt(18): inside the threshold
      [x |-> -32, z |-> -31],      \* distance exactly 5
      [x |-> -25, z |-> -35] }     \* distance 10

\* An image payload (a data URL).  comma: the string holds a comma;
\* b64: the part after the comma is acceptable to base64.b64decode;
\* total/green: the pixel counts of the image the bytes decode to,
\* total = 0 when cv2.imdecode cannot decode them (it returns None).
Img(comma, b64, total, green) ==
    [comma |-> comma, b64 |-> b64, total |-> total, green |-> green]

Images ==
    { Img(TRUE, TRUE, 1000, 2),    \* 0.2 % green
      Img(TRUE, TRUE, 1000, 1),    \* exactly 0.1 % green
      Img(FALSE, TRUE, 1000, 2),   \* no comma: split yields one part
      Img(TRUE, FALSE, 1000, 2),   \* bad base64 padding
      Img(TRUE, TRUE, 0, 0) }      \* bytes that are no image

\* A message in transit on the WebSocket.  Nothing reads a message before
\* ws.recv() hands it to json.loads, so the queue records only what the
\* message is (kind) and, for a capture_image_response, the trigger it
\* answers (trig); its body is drawn when it is received.
\* kind: "response" (type capture_image_response), "other" (a JSON object of
\* another type), "malformed" (json.loads raises, or the JSON is no object).
Msg(kind, trig) == [kind |-> kind, trig |-> trig]

MsgKinds == {"other", "malformed"}

\* The parsed body of a capture_image_response: data["image"] and
\* data["position"], either of which may be absent.
Body(image, position, trig) ==
    [image |-> image, position |-> position, trig |-> trig]

Bodies(t) ==
    { Body(i, p, t) :
        i \in {Some(u) : u \in Images} \cup {Missing},
        p \in {Some(q) : q \in Positions} \cup {Missing} }

-----------------------------------------------------------------------------
(* Commands *)

Ops == {"goal", "capture", "move_rel", "move", "stop"}

Cmd(op, a, b) == [op |-> op, a |-> a, b |-> b]
CmdGoal == Cmd("goal", goal.x, goal.z)
CmdCapture == Cmd("capture", 0, 0)
CmdStop == Cmd("stop", 0, 0)
CmdMove_to_robot == Cmd("move", Val(robot_pos).x, Val(robot_pos).z)

CmdMove == Cmd("move", goal.x, goal.z)
CmdAvoid == Cmd("move_rel", 20, 5)
CmdForward == Cmd("move_rel", 0, 10)
Pause(d) == Cmd("sleep", d, 0)

-----------------------------------------------------------------------------
(* analyze_image *)

\* header, encoded = image_data_url.split(",", 1) raises without a comma
SplitRaises(url) == ~url.comma
\* base64.b64decode(encoded) raises on incorrect padding
B64Raises(url) == ~url.b64
\* cv2.imdecode returns None for undecodable bytes; cv2.cvtColor(None) raises
CvtRaises(url) == url.total = 0

Undecodable(url) == SplitRaises(url) \/ B64Raises(url) \/ CvtRaises(url)

\* green_percentage = (green / total) * 100;  green_percentage > 0.1
GreenAboveThreshold(url) == url.green * 100 * 10 > url.total

analyze_image_ge(url) ==
    IF Undecodable(url) THEN FALSE ELSE url.green * 100 * 10 >= url.total

analyze_image_failclosed(url) ==
    IF Undecodable(url) THEN TRUE ELSE GreenAboveThreshold(url)

analyze_image(url) ==
    IF Undecodable(url) THEN FALSE ELSE GreenAboveThreshold(url)

-----------------------------------------------------------------------------
(* Distance to the goal *)

Sq(n) == n * n
Dist2(p) == Sq(p.x - goal.x) + Sq(p.z - goal.z)
\* floor of the square root; for an integer bound b, sqrt(n) < b iff Isqrt(n) < b
Isqrt(n) == CHOOSE r \in 0..n : Sq(r) <= n /\ Sq(r + 1) > n
distance_to_goal(p) == Isqrt(Dist2(p))

GoalReached_le(p) == distance_to_goal(p) <= GOAL_THRESHOLD

GoalReached_nosqrt(p) == Dist2(p) < GOAL_THRESHOLD

GoalReached(p) == distance_to_goal(p) < GOAL_THRESHOLD

-----------------------------------------------------------------------------
(* Initial state: main has not yet connected *)

Init ==
    /\ pc = "connect"
    /\ conn = "none"
    /\ wsq = <<>>
    /\ pending = {}
    /\ timer = 0
    /\ totalWait = 0
    /\ cycle = 0
    /\ image_response = None
    /\ image_data = None
    /\ robot_pos = None
    /\ is_obstacle_ahead = None
    /\ trace = <<>>
    /\ issued = [o \in Ops |-> 0]
    /\ timeouts = 0
    /\ fault = "none"
    /\ goal = GOAL_POSITION

-----------------------------------------------------------------------------
(* Helpers of the actions *)

\* requests.post(...): the command is dispatched to the simulator
Post(cmd) ==
    /\ trace' = Append(trace, cmd)
    /\ issued' = [issued EXCEPT ![cmd.op] = @ + 1]

Raise_swallowed(kind) ==
    /\ fault' = kind
    /\ UNCHANGED <<pc, conn>>

Raise_leak(kind) ==
    /\ fault' = kind
    /\ pc' = "crashed"
    /\ conn' = conn

\* An exception leaves main: the `async with` block closes the WebSocket
\* and asyncio.run(main()) ends the process.
Raise(kind) ==
    /\ fault' = kind
    /\ pc' = "crashed"
    /\ conn' = "closed"

SleepStates == {"retry_sleep", "settle_obstacle", "settle_clear", "cycle_sleep"}

\* the argument of each asyncio.sleep
SleepFor(p) ==
    CASE p = "retry_sleep" -> RETRY_DELAY
      [] p = "settle_obstacle" -> OBSTACLE_SETTLE
      [] p = "settle_clear" -> CLEAR_SETTLE
      [] p = "cycle_sleep" -> CYCLE_DELAY

AfterSleep_reorient_always(p) ==
    CASE p = "retry_sleep" -> "capture"
      [] p = "settle_obstacle" -> "reorient"
      [] p = "settle_clear" -> "reorient"
      [] p = "cycle_sleep" -> "capture"

AfterSleep_skip_reorient(p) ==
    CASE p = "retry_sleep" -> "capture"
      [] p = "settle_obstacle" -> "cycle_sleep"
      [] p = "settle_clear" -> "cycle_sleep"
      [] p = "cycle_sleep" -> "capture"

AfterSleep_first_cycle_only(p) ==
    CASE p = "retry_sleep" -> "capture"
      [] p = "settle_obstacle" -> "cycle_sleep"
      [] p = "settle_clear" -> IF cycle = 1 THEN "reorient" ELSE "cycle_sleep"
      [] p = "cycle_sleep" -> "capture"

AfterSleep_skip_cycle_pause(p) ==
    CASE p = "retry_sleep" -> "capture"
      [] p = "settle_obstacle" -> "capture"
      [] p = "settle_clear" -> "reorient"
      [] p = "cycle_sleep" -> "capture"

AfterSleep_blind_retry(p) ==
    CASE p = "retry_sleep" -> "reorient"
      [] p = "settle_obstacle" -> "cycle_sleep"
      [] p = "settle_clear" -> "reorient"
      [] p = "cycle_sleep" -> "capture"

AfterSleep_resend_goal(p) ==
    CASE p = "retry_sleep" -> "capture"
      [] p = "settle_obstacle" -> "cycle_sleep"
      [] p = "settle_clear" -> "reorient"
      [] p = "cycle_sleep" -> "set_goal"

\* the statement that follows each asyncio.sleep
AfterSleep(p) ==
    CASE p = "retry_sleep" -> "capture"
      [] p = "settle_obstacle" -> "cycle_sleep"
      [] p = "settle_clear" -> "reorient"
      [] p = "cycle_sleep" -> "capture"

-----------------------------------------------------------------------------
(* main *)

\* async with websockets.connect(WEBSOCKET_URL) as ws
Connect ==
    /\ UNCHANGED goal
    /\ pc = "connect"
    /\ \E ok \in BOOLEAN :
         IF ok
         THEN pc' = "set_goal" /\ conn' = "open" /\ fault' = fault
         ELSE pc' = "crashed" /\ conn' = "none" /\ fault' = "connect"
    /\ UNCHANGED <<wsq, pending, timer, totalWait, cycle, image_response,
                   image_data, robot_pos, is_obstacle_ahead, trace, issued,
                   timeouts>>

\* requests.post(f"{FLASK_URL}/goal", json=GOAL_POSITION)
SetGoal ==
    /\ UNCHANGED goal
    /\ pc = "set_goal"
    /\ Post(CmdGoal)
    /\ \E ok \in BOOLEAN :
         IF ok
         THEN pc' = "capture" /\ UNCHANGED <<conn, fault>>
         ELSE Raise("dispatch")
    /\ UNCHANGED <<wsq, pending, timer, totalWait, cycle, image_response,
                   image_data, robot_pos, is_obstacle_ahead, timeouts>>

\* Loop head and the first statement of capture_image_from_server:
\* requests.post(f"{FLASK_URL}/capture").  A new iteration begins: its
\* locals are dead until assigned again.
Capture ==
    /\ UNCHANGED goal
    /\ pc = "capture"
    /\ cycle < MaxCycles
    /\ cycle' = cycle + 1
    /\ trace' = <<CmdCapture>>
    /\ issued' = [issued EXCEPT !["capture"] = @ + 1]
    /\ image_response' = None
    /\ image_data' = None
    /\ robot_pos' = None
    /\ is_obstacle_ahead' = None
    /\ timer' = 0
    /\ totalWait' = 0
    /\ \E ok \in BOOLEAN :
         IF ok
         THEN /\ pc' = "recv"
              /\ pending' = pending \cup {cycle'}
              /\ UNCHANGED <<conn, fault>>
         ELSE /\ Raise("dispatch")
              /\ UNCHANGED pending
    /\ UNCHANGED <<wsq, timeouts>>

IgnoreOther_abort ==
    /\ pc' = "retry_sleep"
    /\ timer' = 0
    /\ UNCHANGED <<image_response, timeouts, conn, fault>>

\* data.get("type") != "capture_image_response": the while loop goes round,
\* and a new asyncio.wait_for(ws.recv(), timeout=5.0) starts
IgnoreOther ==
    /\ pc' = "recv"
    /\ timer' = 0
    /\ UNCHANGED <<image_response, timeouts, conn, fault>>

\* message = await ws.recv(); data = json.loads(message);
\* if data.get("type") == "capture_image_response": return data
RecvMessage ==
    /\ UNCHANGED goal
    /\ pc = "recv"
    /\ wsq # <<>>
    /\ wsq' = Tail(wsq)
    /\ LET m == Head(wsq) IN
         CASE m.kind = "malformed" ->
                /\ \E e \in {"json", "attribute"} : Raise(e)
                /\ UNCHANGED <<image_response, timer, timeouts>>
           [] m.kind = "response" ->
                /\ \E data \in Bodies(m.trig) : image_response' = Some(data)
                /\ pc' = "unpack"
                /\ timeouts' = 0
                /\ UNCHANGED <<timer, conn, fault>>
           [] m.kind = "other" -> IgnoreOther
    /\ UNCHANGED <<pending, totalWait, cycle, image_data, robot_pos,
                   is_obstacle_ahead, trace, issued>>

\* ws.recv() raises ConnectionClosed, which no handler catches
RecvClosed ==
    /\ UNCHANGED goal
    /\ pc = "recv"
    /\ conn = "dropped"
    /\ Raise("closed")
    /\ UNCHANGED <<wsq, pending, timer, totalWait, cycle, image_response,
                   image_data, robot_pos, is_obstacle_ahead, trace, issued,
                   timeouts>>

AfterTimeout_break == "done"

\* except asyncio.TimeoutError: return None;  if not image_response: ...
AfterTimeout == "retry_sleep"

\* asyncio.wait_for(ws.recv(), timeout=5.0) expires
RecvTimeout ==
    /\ UNCHANGED goal
    /\ pc = "recv"
    /\ conn = "open"
    /\ wsq = <<>>
    /\ timer = CAPTURE_TIMEOUT
    /\ image_response' = None
    /\ pc' = AfterTimeout
    /\ conn' = IF AfterTimeout = "done" THEN "closed" ELSE conn
    /\ timer' = 0
    /\ timeouts' = timeouts + 1
    /\ UNCHANGED <<wsq, pending, totalWait, cycle, image_data, robot_pos,
                   is_obstacle_ahead, trace, issued, fault>>

\* a time unit passes while ws.recv() is pending
TickRecv ==
    /\ UNCHANGED goal
    /\ pc = "recv"
    /\ conn = "open"
    /\ wsq = <<>>
    /\ timer < CAPTURE_TIMEOUT
    /\ totalWait < MaxWait
    /\ timer' = timer + 1
    /\ totalWait' = totalWait + 1
    /\ UNCHANGED <<pc, conn, wsq, pending, cycle, image_response, image_data,
                   robot_pos, is_obstacle_ahead, trace, issued, timeouts, fault>>

\* a time unit passes during an asyncio.sleep
TickSleep ==
    /\ UNCHANGED goal
    /\ pc \in SleepStates
    /\ timer < SleepFor(pc)
    /\ timer' = timer + 1
    /\ UNCHANGED <<pc, conn, wsq, pending, totalWait, cycle, image_response,
                   image_data, robot_pos, is_obstacle_ahead, trace, issued,
                   timeouts, fault>>

\* an asyncio.sleep returns
Wake ==
    /\ UNCHANGED goal
    /\ pc \in SleepStates
    /\ timer = SleepFor(pc)
    /\ trace' = Append(trace, Pause(timer))
    /\ pc' = AfterSleep(pc)
    /\ timer' = 0
    /\ UNCHANGED <<conn, wsq, pending, totalWait, cycle, image_response,
                   image_data, robot_pos, is_obstacle_ahead, issued, timeouts,
                   fault>>

\* image_data = image_response["image"]; robot_pos = image_response["position"];
\* distance_to_goal = ...; if distance_to_goal < GOAL_THRESHOLD
Unpack ==
    /\ UNCHANGED goal
    /\ pc = "unpack"
    /\ IF \/ Val(image_response).image = Missing
          \/ Val(image_response).position = Missing
       THEN /\ Raise("key")
            /\ UNCHANGED <<image_data, robot_pos>>
       ELSE /\ image_data' = Val(image_response).image
            /\ robot_pos' = Val(image_response).position
            /\ pc' = IF GoalReached(Val(robot_pos')) THEN "stop" ELSE "analyze"
            /\ UNCHANGED <<conn, fault>>
    /\ UNCHANGED <<wsq, pending, timer, totalWait, cycle, image_response,
                   is_obstacle_ahead, trace, issued, timeouts>>

\* requests.post(f"{FLASK_URL}/stop"); break
Stop ==
    /\ UNCHANGED goal
    /\ pc = "stop"
    /\ Post(CmdStop)
    /\ \E ok \in BOOLEAN :
         IF ok
         THEN pc' = "done" /\ conn' = "closed" /\ fault' = fault
         ELSE Raise("dispatch")
    /\ UNCHANGED <<wsq, pending, timer, totalWait, cycle, image_response,
                   image_data, robot_pos, is_obstacle_ahead, timeouts>>

\* is_obstacle_ahead = analyze_image(image_data)
Analyze ==
    /\ UNCHANGED goal
    /\ pc = "analyze"
    /\ is_obstacle_ahead' = Some(analyze_image(Val(image_data)))
    /\ pc' = "move_rel"
    /\ UNCHANGED <<conn, wsq, pending, timer, totalWait, cycle, image_response,
                   image_data, robot_pos, trace, issued, timeouts, fault>>

\* if is_obstacle_ahead: post move_rel {turn 20, distance 5}; sleep(2)
\* else: post move_rel {turn 0, distance 10}; sleep(1)
MoveRel ==
    /\ UNCHANGED goal
    /\ pc = "move_rel"
    /\ Post(IF Val(is_obstacle_ahead) THEN CmdAvoid ELSE CmdForward)
    /\ timer' = 0
    /\ \E ok \in BOOLEAN :
         IF ok
         THEN /\ pc' = IF Val(is_obstacle_ahead) THEN "settle_obstacle"
                                                   ELSE "settle_clear"
              /\ UNCHANGED <<conn, fault>>
         ELSE Raise("dispatch")
    /\ UNCHANGED <<wsq, pending, totalWait, cycle, image_response, image_data,
                   robot_pos, is_obstacle_ahead, timeouts>>

\* requests.post(f"{FLASK_URL}/move", json=GOAL_POSITION)
Reorient ==
    /\ UNCHANGED goal
    /\ pc = "reorient"
    /\ Post(CmdMove)
    /\ timer' = 0
    /\ \E ok \in BOOLEAN :
         IF ok
         THEN pc' = "cycle_sleep" /\ UNCHANGED <<conn, fault>>
         ELSE Raise("dispatch")
    /\ UNCHANGED <<wsq, pending, totalWait, cycle, image_response, image_data,
                   robot_pos, is_obstacle_ahead, timeouts>>

-----------------------------------------------------------------------------
(* The simulator and the network *)

\* the simulator answers one capture trigger over the WebSocket
SimRespond ==
    /\ UNCHANGED goal
    /\ conn = "open"
    /\ Len(wsq) < MaxQueue
    /\ \E t \in pending :
         /\ pending' = pending \ {t}
         /\ wsq' = Append(wsq, Msg("response", t))
    /\ UNCHANGED <<pc, conn, timer, totalWait, cycle, image_response,
                   image_data, robot_pos, is_obstacle_ahead, trace, issued,
                   timeouts, fault>>

\* a message of another type, or a malformed one, arrives
SimOther ==
    /\ UNCHANGED goal
    /\ conn = "open"
    /\ Len(wsq) < MaxQueue
    /\ \E k \in MsgKinds : wsq' = Append(wsq, Msg(k, 0))
    /\ UNCHANGED <<pc, conn, pending, timer, totalWait, cycle, image_response,
                   image_data, robot_pos, is_obstacle_ahead, trace, issued,
                   timeouts, fault>>

\* the streaming channel drops
Drop ==
    /\ UNCHANGED goal
    /\ conn = "open"
    /\ conn' = "dropped"
    /\ UNCHANGED <<pc, wsq, pending, timer, totalWait, cycle, image_response,
                   image_data, robot_pos, is_obstacle_ahead, trace, issued,
                   timeouts, fault>>

-----------------------------------------------------------------------------

Next ==
    \/ Connect
    \/ SetGoal
    \/ Capture
    \/ RecvMessage
    \/ RecvClosed
    \/ RecvTimeout
    \/ TickRecv
    \/ TickSleep
    \/ Wake
    \/ Unpack
    \/ Stop
    \/ Analyze
    \/ MoveRel
    \/ Reorient
    \/ SimRespond
    \/ SimOther
    \/ Drop

Spec == Init /\ [][Next]_vars

-----------------------------------------------------------------------------
(* Vocabulary of the properties *)

Terminal == {"done", "crashed"}

\* the captured position is closer to the goal than GOAL_THRESHOLD
Near == robot_pos # None /\ Dist2(Val(robot_pos)) < Sq(GOAL_THRESHOLD)

\* capture triggers whose capture_image_response has not been consumed yet
QueuedResponses == {i \in 1..Len(wsq) : wsq[i].kind = "response"}
InFlight == Cardinality(pending) + Cardinality(QueuedResponses)

\* ws.recv() has just handed over the message at the head of the queue
Received == pc = "recv" /\ wsq # <<>> /\ Len(wsq') < Len(wsq)

IsPrefix(s, t) == Len(s) <= Len(t) /\ SubSeq(t, 1, Len(s)) = s

ObstacleCycle == <<CmdCapture, CmdAvoid, Pause(2), Pause(1)>>
ClearCycle == <<CmdCapture, CmdForward, Pause(1), CmdMove, Pause(1)>>

-----------------------------------------------------------------------------
(* Claims *)

\* C1: in a cycle whose captured position is closer than GOAL_THRESHOLD to
\* GOAL_POSITION the loop issues exactly one Stop and terminates: the
\* classifier is not run on the frame, no MoveRelative, no move-toward-goal
\* and no further capture trigger is issued, and nothing happens after the
\* loop has ended.
C1_GoalReachedStops ==
    /\ Near =>
         /\ pc \in {"stop", "done", "crashed"}
         /\ is_obstacle_ahead = None
         /\ pc = "stop" => trace = <<CmdCapture>>
         /\ pc \in Terminal => trace = <<CmdCapture, CmdStop>> /\ issued["stop"] = 1
    /\ pc = "stop" => Near
    /\ pc = "done" => Near /\ ~ENABLED Next

C1_Witness ==
    /\ pc = "done"
    /\ Near
    /\ trace = <<CmdCapture, CmdStop>>
    /\ cycle = 2

\* C2: at most one capture is in flight: the triggers sent whose
\* capture_image_response has not been consumed, or can still arrive,
\* number at most one.
C2_SingleOutstanding == InFlight <= 1

\* C3: a capture that ends in a timeout ends exactly CAPTURE_TIMEOUT time
\* units after the wait began, whatever other messages arrived meanwhile.
C3_TimeoutAfterWholeWait ==
    (pc = "retry_sleep" /\ image_response = None) => totalWait = CAPTURE_TIMEOUT

\* C4: a capture timeout keeps the loop running: it pauses exactly one time
\* unit, whatever the number of timeouts before it, and then invokes the
\* capture again, which sends a new trigger.
C4_TimeoutRetries ==
    [][ /\ (pc = "recv" /\ conn = "open" /\ wsq = <<>> /\ pc' # "recv") =>
             /\ pc' = "retry_sleep"
             /\ timer' = 0
             /\ image_response' = None
             /\ issued' = issued
        /\ (pc = "retry_sleep" /\ pc' # "retry_sleep") =>
             /\ timer = 1
             /\ pc' = "capture"
             /\ trace' = Append(trace, Pause(1))
             /\ issued' = issued
        /\ (pc = "capture" /\ pc' # "capture") =>
             /\ pc' \in {"recv", "crashed"}
             /\ issued'["capture"] = issued["capture"] + 1
      ]_vars

C4_Witness ==
    /\ timeouts = 2
    /\ pc = "capture"
    /\ issued["capture"] = 2
    /\ trace = <<CmdCapture, Pause(1)>>

\* C5: a cycle whose verdict is "obstacle" issues MoveRelative(20, 5), pauses
\* 2 units and then the inter-cycle unit, and issues neither a
\* move-toward-goal nor a Stop.
C5_ObstacleBranch ==
    is_obstacle_ahead = Some(TRUE) =>
        /\ ~Near
        /\ IsPrefix(trace, ObstacleCycle)
        /\ CASE pc = "move_rel" -> Len(trace) = 1
             [] pc = "settle_obstacle" -> Len(trace) = 2
             [] pc = "cycle_sleep" -> Len(trace) = 3
             [] pc = "capture" -> Len(trace) = 4
             [] pc = "crashed" -> Len(trace) = 2 /\ fault = "dispatch"
             [] OTHER -> FALSE

C5_Witness ==
    /\ is_obstacle_ahead = Some(TRUE)
    /\ pc = "capture"
    /\ trace = ObstacleCycle

\* C6: a cycle whose verdict is "clear" issues MoveRelative(0, 10), pauses 1
\* unit, then issues move-toward-goal with target GOAL_POSITION, all before
\* the inter-cycle pause and the next capture trigger.
C6_ClearBranch ==
    is_obstacle_ahead = Some(FALSE) =>
        /\ ~Near
        /\ IsPrefix(trace, ClearCycle)
        /\ CASE pc = "move_rel" -> Len(trace) = 1
             [] pc = "settle_clear" -> Len(trace) = 2
             [] pc = "reorient" -> Len(trace) = 3
             [] pc = "cycle_sleep" -> Len(trace) = 4
             [] pc = "capture" -> Len(trace) = 5
             [] pc = "crashed" -> Len(trace) \in {2, 4} /\ fault = "dispatch"
             [] OTHER -> FALSE

C6_Witness ==
    /\ is_obstacle_ahead = Some(FALSE)
    /\ pc = "capture"
    /\ trace = ClearCycle
    /\ trace[4] = Cmd("move", -35, -35)

\* C7: once main is connected, SetGoal(GOAL_POSITION) is sent exactly once,
\* before the first capture trigger, and never again.
C7_SetGoalOnce ==
    /\ issued["goal"] <= 1
    /\ pc \in {"connect", "set_goal"} => \A o \in Ops : issued[o] = 0
    /\ (pc \notin {"connect", "set_goal"} /\ fault # "connect") => issued["goal"] = 1
    /\ (pc \in {"capture", "crashed"} /\ cycle = 0 /\ fault # "connect") =>
          trace = <<Cmd("goal", -35, -35)>>

C7_Witness ==
    /\ pc = "capture"
    /\ cycle = 2
    /\ timeouts = 1
    /\ issued["move_rel"] = 1
    /\ issued["goal"] = 1

\* C8: a well-formed message of another type that ws.recv() hands over
\* during the wait is dropped and nothing else: the capture neither returns
\* nor fails, no command is sent, and the wait goes on.
C8_OtherIgnored ==
    [][ (Received /\ Head(wsq).kind = "other") =>
          /\ pc' = "recv"
          /\ wsq' = Tail(wsq)
          /\ UNCHANGED <<image_response, issued, trace, pending, cycle,
                         fault, conn, timeouts, totalWait>>
      ]_vars

C8_Witness ==
    /\ pc = "recv"
    /\ timer = 0
    /\ totalWait > 0
    /\ wsq = <<>>

\* C9: an image payload that cannot be split, base64-decoded or decoded as
\* an image gets the verdict "no obstacle" and raises nothing: its cycle
\* takes the clear branch and the loop goes on.
C9_DecodeFailsOpen ==
    /\ \A u \in Images : Undecodable(u) => analyze_image(u) = FALSE
    /\ (image_data # None /\ Undecodable(Val(image_data))
            /\ is_obstacle_ahead # None) =>
         /\ is_obstacle_ahead = Some(FALSE)
         /\ IsPrefix(trace, ClearCycle)
         /\ pc \in {"move_rel", "settle_clear", "reorient", "cycle_sleep",
                    "capture", "crashed"}
         /\ pc = "crashed" => fault = "dispatch"

C9_Witness ==
    /\ image_data = Some(Img(TRUE, FALSE, 1000, 2))
    /\ pc = "capture"
    /\ trace = ClearCycle

\* C10 as claimed: after a dispatch has failed, the streaming channel has
\* dropped or a malformed message was received, no further command is issued.
C10_NoCommandAfterFailure ==
    [][ (fault # "none" \/ conn = "dropped") => issued' = issued ]_vars

\* C10 as amended: a failure is fatal from the moment the program meets it.
\* A failed dispatch, a ws.recv() on a dropped channel, a malformed message
\* handed over by ws.recv() and a capture_image_response without image or
\* position each end main at once, with the WebSocket closed; after that
\* no step is taken, so no command is issued or retried.
C10_FatalOnceObserved ==
    [][ /\ pc \notin Terminal
        /\ fault' # "none" => (pc' = "crashed" /\ conn' \in {"closed", "none"})
        /\ (Received /\ Head(wsq).kind = "malformed") =>
              (pc' = "crashed" /\ issued' = issued)
        /\ (pc = "recv" /\ conn = "dropped" /\ wsq = <<>>) =>
              (pc' = "crashed" /\ issued' = issued)
        /\ (pc = "unpack" /\ pc' # "unpack"
              /\ (\/ Val(image_response).image = Missing
                  \/ Val(image_response).position = Missing)) =>
              (pc' = "crashed" /\ issued' = issued)
      ]_vars

C10_Witness ==
    /\ pc = "crashed"
    /\ fault = "closed"
    /\ issued["move"] = 1
    /\ issued["capture"] = 2

\* main holds the WebSocket: it is inside the `async with` block, whether or
\* not the peer has dropped the channel meanwhile
Held == conn \in {"open", "dropped"}

\* C11: main holds the streaming connection during every command and every
\* capture, and has released it in every terminal state, however main
\* ended (a connection that was never established has nothing to release).
C11_ConnectionScoped ==
    [][ /\ issued' # issued => Held
        /\ pc' \notin Terminal \cup {"connect"} => Held'
        /\ pc' \in Terminal =>
              \/ conn' = "closed"
              \/ fault' = "connect" /\ conn' = "none"
      ]_vars

C11_Witness ==
    /\ pc = "crashed"
    /\ fault = "key"
    /\ conn = "closed"
    /\ cycle = 2

\* C12: the loop ends only by the break that follows Stop, in a cycle whose
\* captured position is inside the threshold, or by a propagated failure; a
\* capture timeout and an undecodable image never end it.
C12_TerminatesOnlyByGoalOrError ==
    [][ /\ pc' = "done" =>
              /\ pc = "stop"
              /\ Near'
              /\ trace'[Len(trace')] = CmdStop
              /\ fault' = "none"
        /\ pc' = "crashed" => fault' # "none"
        /\ (pc = "recv" /\ timeouts' = timeouts + 1) => pc' \notin Terminal
        /\ (pc = "analyze" /\ pc' # pc /\ Undecodable(Val(image_data))) =>
              pc' \notin Terminal
      ]_vars

C12_Witness ==
    /\ pc = "done"
    /\ fault = "none"
    /\ issued["move_rel"] = 1
    /\ issued["stop"] = 1

\* the commands of a trace, without its pauses
IsCommand(c) == c.op # "sleep"
Commands(t) == SelectSeq(t, IsCommand)

\* the commands of a cycle as a function of its captured position (inside
\* the threshold or not) and its verdict alone
Policy(near, verdict) ==
    IF near THEN <<CmdCapture, CmdStop>>
    ELSE IF Val(verdict) THEN <<CmdCapture, CmdAvoid>>
    ELSE <<CmdCapture, CmdForward, CmdMove>>

\* C13: the commands a cycle issues are a function of its captured position
\* and verdict only: in every cycle, whatever came before it (timeouts,
\* obstacle cycles, the number of cycles), the commands issued so far are a
\* prefix of Policy(position, verdict), and all of it once the cycle is
\* complete.  Two runs that reach a cycle with the same position and
\* verdict therefore issue the same commands there.
C13_Memoryless ==
    (robot_pos # None /\ (Near \/ is_obstacle_ahead # None)) =>
        /\ IsPrefix(Commands(trace), Policy(Near, is_obstacle_ahead))
        /\ pc \in {"cycle_sleep", "capture", "done"} =>
              Commands(trace) = Policy(Near, is_obstacle_ahead)

C13_Witness ==
    /\ pc = "cycle_sleep"
    /\ cycle = 2
    /\ issued["move_rel"] = 1
    /\ is_obstacle_ahead = Some(FALSE)
    /\ Commands(trace) = <<CmdCapture, CmdForward, CmdMove>>

-----------------------------------------------------------------------------
(* analyze_image on its own: main stands at line 101 with a decodable image
   of any size and any number of green pixels *)

SweepTotals == {1, 999, 1000, 1001, 2000, 2500}

SweepImages ==
    UNION { { Img(TRUE, TRUE, n, g) : g \in 0..n } : n \in SweepTotals }

InitAnalyze ==
    /\ pc = "analyze"
    /\ conn = "open"
    /\ wsq = <<>>
    /\ pending = {}
    /\ timer = 0
    /\ totalWait = 0
    /\ cycle = 1
    /\ \E u \in SweepImages :
         /\ image_data = Some(u)
         /\ image_response = Some(Body(Some(u), Some([x |-> -25, z |-> -35]), 1))
    /\ robot_pos = Some([x |-> -25, z |-> -35])
    /\ is_obstacle_ahead = None
    /\ trace = <<CmdCapture>>
    /\ issued = [o \in Ops |-> IF o \in {"goal", "capture"} THEN 1 ELSE 0]
    /\ timeouts = 0
    /\ fault = "none"
    /\ goal = GOAL_POSITION

NextAnalyze == Analyze

SpecAnalyze == InitAnalyze /\ [][NextAnalyze]_vars

\* C14: on a decodable image of N pixels with g green ones the verdict is
\* true iff g * 1000 > N (false at exactly 0.1 %); one more green pixel never
\* turns a true verdict false, one fewer never turns a false verdict true.
C14_ThresholdMonotone ==
    is_obstacle_ahead # None =>
        LET u == Val(image_data)
            v == Val(is_obstacle_ahead)
        IN /\ v = (u.green * 1000 > u.total)
           /\ (v /\ u.green < u.total) =>
                 analyze_image([u EXCEPT !.green = @ + 1])
           /\ (~v /\ u.green > 0) =>
                 ~analyze_image([u EXCEPT !.green = @ - 1])

C14_Witness ==
    /\ is_obstacle_ahead = Some(FALSE)
    /\ image_data = Some(Img(TRUE, TRUE, 2000, 2))

\* C15: whenever the loop is back at the capture step, the last thing it did
\* was to pause one time unit: after the settle pause of the obstacle
\* branch, after the move-toward-goal of the clear branch, and after a
\* timeout.  So a pause lies between any two capture triggers.
C15_PauseBeforeEveryCapture ==
    (pc = "capture" /\ cycle > 0) =>
        LET n == Len(trace) IN
        /\ n >= 2
        /\ trace[1] = CmdCapture
        /\ trace[n] = Pause(1)
        /\ image_response = None => n = 2
        /\ is_obstacle_ahead = Some(TRUE) =>
              trace[n - 1] = Pause(2) /\ trace[n - 2] = CmdAvoid
        /\ is_obstacle_ahead = Some(FALSE) => trace[n - 1] = CmdMove

C15_Witness ==
    /\ pc = "capture"
    /\ cycle = 2
    /\ issued["move_rel"] = 2
    /\ trace[Len(trace)] = Pause(1)

\* C16: the goal is never changed: in every reachable state the dict holds
\* the value line 14 gave it, every SetGoal and every move-toward-goal of
\* the cycle's trace carries that value, and the goal check of line 95
\* measured the distance to it.
C16_GoalNeverMutated ==
    /\ goal = [x |-> -35, z |-> -35]
    /\ \A i \in 1..Len(trace) :
          trace[i].op \in {"goal", "move"} =>
              trace[i].a = -35 /\ trace[i].b = -35
    /\ pc = "stop" =>
          Sq(Val(robot_pos).x + 35) + Sq(Val(robot_pos).z + 35) < 25
    /\ pc = "analyze" =>
          Sq(Val(robot_pos).x + 35) + Sq(Val(robot_pos).z + 35) >= 25

C16_Witness ==
    /\ pc = "cycle_sleep"
    /\ cycle = 2
    /\ Len(trace) = 4
    /\ trace[4] = Cmd("move", -35, -35)
    /\ goal = GOAL_POSITION

\* C17: the response a cycle acts on answers the trigger that the same
\* invocation of capture_image_from_server sent: never an earlier one.
C17_ResponseAnswersOwnTrigger ==
    image_response # None => Val(image_response).trig = cycle

ActOps == {"move_rel", "move", "stop"}
Acts(t) == {i \in 1..Len(t) : t[i].op \in ActOps}
MoveRels(t) == {i \in 1..Len(t) : t[i].op = "move_rel"}

\* C18: a cycle whose capture timed out issues no MoveRelative, no
\* move-toward-goal and no Stop; any such command comes after a response
\* received, and unpacked, in its own cycle; a cycle never issues two
\* MoveRelative, and one that got a response outside the threshold has
\* issued exactly one when it ends.
C18_NoActuationWithoutPerception ==
    /\ (cycle >= 1 /\ image_response = None) => Acts(trace) = {}
    /\ Acts(trace) # {} => (image_response # None /\ robot_pos # None)
    /\ Cardinality(MoveRels(trace)) <= 1
    /\ (robot_pos # None /\ ~Near /\ pc \in {"cycle_sleep", "capture"}) =>
          Cardinality(MoveRels(trace)) = 1

C18_Witness ==
    /\ pc = "capture"
    /\ cycle = 2
    /\ image_response = None
    /\ issued["move_rel"] = 1
    /\ trace = <<CmdCapture, Pause(1)>>

\* squared distance of the captured position to (-35, -35)
SquaredDistance == Sq(Val(robot_pos).x + 35) + Sq(Val(robot_pos).z + 35)
Stops(t) == {i \in 1..Len(t) : t[i].op = "stop"}

\* C19: Stop is issued only in a cycle whose captured position has squared
\* distance below 25, and at most once in a run; at squared distance 25 or
\* more the loop does not stop: it classifies the frame and issues a
\* MoveRelative.
C19_StopOnlyAtGoal ==
    /\ issued["stop"] <= 1
    /\ (pc = "stop" \/ Stops(trace) # {}) =>
          (robot_pos # None /\ SquaredDistance < 25)
    /\ (robot_pos # None /\ SquaredDistance >= 25) =>
          /\ pc \notin {"stop", "done"}
          /\ Stops(trace) = {}
          /\ issued["stop"] = 0
          /\ pc # "analyze" => is_obstacle_ahead # None
          /\ pc \notin {"analyze", "move_rel"} =>
                Cardinality(MoveRels(trace)) = 1

C19_Witness ==
    /\ robot_pos = Some([x |-> -32, z |-> -31])
    /\ pc = "cycle_sleep"
    /\ issued["stop"] = 0
    /\ Cardinality(MoveRels(trace)) = 1

-----------------------------------------------------------------------------
(* The run without failures: every trigger is answered in time and the
   reported position comes within the threshold *)

\* no transport failure: nothing is raised, the channel stays up, no
\* malformed message arrives
NoFailure ==
    /\ fault' = "none"
    /\ conn' # "dropped"
    /\ \A i \in 1..Len(wsq') : wsq'[i].kind # "malformed"

\* the answer to a trigger arrives before wait_for expires, and holds an
\* image and a position
AnsweredInTime ==
    /\ timeouts' = timeouts
    /\ (pc' = "recv" /\ wsq' = <<>>) => timer' < CAPTURE_TIMEOUT
    /\ (pc = "recv" /\ pc' = "unpack") =>
          /\ Val(image_response').image # Missing
          /\ Val(image_response').position # Missing

\* the reported position is within the threshold in the last cycle at the
\* latest
ComesNear ==
    (pc = "recv" /\ pc' = "unpack" /\ cycle = MaxCycles) =>
        /\ Val(image_response').position # Missing
        /\ Dist2(Val(Val(image_response').position)) < Sq(GOAL_THRESHOLD)

LiveAssumptions == NoFailure /\ AnsweredInTime /\ ComesNear

LiveConnect == Connect /\ LiveAssumptions
LiveSetGoal == SetGoal /\ LiveAssumptions
LiveCapture == Capture /\ LiveAssumptions
LiveRecvMessage == RecvMessage /\ LiveAssumptions
LiveTickRecv == TickRecv /\ LiveAssumptions
LiveTickSleep == TickSleep /\ LiveAssumptions
LiveWake == Wake /\ LiveAssumptions
LiveUnpack == Unpack /\ LiveAssumptions
LiveStop == Stop /\ LiveAssumptions
LiveAnalyze == Analyze /\ LiveAssumptions
LiveMoveRel == MoveRel /\ LiveAssumptions
LiveReorient == Reorient /\ LiveAssumptions
LiveSimRespond == SimRespond /\ LiveAssumptions
LiveSimOther == SimOther /\ LiveAssumptions

\* the steps of main and of the clock
LiveProgram ==
    \/ LiveConnect
    \/ LiveSetGoal
    \/ LiveCapture
    \/ LiveRecvMessage
    \/ LiveTickRecv
    \/ LiveTickSleep
    \/ LiveWake
    \/ LiveUnpack
    \/ LiveStop
    \/ LiveAnalyze
    \/ LiveMoveRel
    \/ LiveReorient

NextLive ==
    \/ LiveProgram
    \/ LiveSimRespond
    \/ LiveSimOther

\* the event loop runs main whenever it can run, and the simulator answers
\* a trigger however much other traffic there is
SpecLive ==
    /\ Init
    /\ [][NextLive]_vars
    /\ WF_vars(LiveProgram)
    /\ SF_vars(LiveSimRespond)

\* C20: when no transport failure occurs, every capture trigger is answered
\* in time and the reported position comes within the threshold, the loop
\* eventually issues Stop and ends with the goal reached.
C20_EventuallyStops == <>(pc = "done" /\ issued["stop"] = 1 /\ fault = "none")

C20_Witness ==
    /\ pc = "done"
    /\ cycle = MaxCycles
    /\ timeouts = 0
    /\ issued["capture"] = MaxCycles
    /\ issued["move_rel"] = MaxCycles - 1
    /\ issued["stop"] = 1

====
